---- MODULE Spec2Model ----
(***************************************************************************)
(* A model of the data pipeline of global-data-dashboard: the unified      *)
(* fetch facade get_data and its three source adapters (src/api.py), and   *)
(* the multi-indicator merger fetch_and_merge_data (src/utils.py).         *)
(*                                                                         *)
(* Python strings are sequences of one-character strings, so that prefix   *)
(* tests, str.replace, str.upper, int() and float() are computed as the    *)
(* code computes them.  Numbers are exact rationals [n, d] in lowest terms *)
(* with d > 0.  A JSON value, and a cell of a DataFrame, is a record       *)
(* [t, s, n, d]: t is its type, s its text, n/d its number.                *)
(***************************************************************************)
EXTENDS Integers, Sequences, FiniteSets, TLC

VARIABLES
    pc,        \* position of the program: "idle", "wait", "m_wait", "done"
    call,      \* the running top-level call: [fn, code, countries, date]
    invoked,   \* the adapter invocations made, in order: [adapter, indicator, countries, date]
    requests,  \* the HTTP requests sent, in order
    response,  \* the HTTP response received last
    notes,     \* the st.error / st.warning notifications emitted, in order
    ret,       \* what the top-level call yielded: [exc, df]
    idx,       \* fetch_and_merge_data: the number of indicators fetched so far
    fetched,   \* fetch_and_merge_data: the table get_data returned, per indicator
    frames,    \* fetch_and_merge_data: dataframes_to_merge
    passed,    \* calculate_fairness_score: the table df as the caller passed it
    arg_df,    \* calculate_fairness_score: the caller's table df after the call
    scored,    \* calculate_fairness_score: [exc, score_df, components_df]
    cache      \* st.cache_data of the adapters: invocation -> [df, notes]

vars == <<pc, call, invoked, requests, response, notes, ret, idx, fetched, frames,
          passed, arg_df, scored, cache>>

(***************************************************************************)
(* Bounds of the model.                                                    *)
(***************************************************************************)
MaxRecs == 2      \* records in a World Bank response
MaxPts == 2       \* data points in an IMF response
MaxObs == 2       \* observations in a Data Commons response
MaxParts == 2     \* parts of an indicator code after its prefix
MaxRows == 3      \* rows in a Merged Table given to the scorer
MaxCalls == 2     \* calls of get_data in one process

(***************************************************************************)
(* Strings.                                                                *)
(***************************************************************************)
Digits == <<"0", "1", "2", "3", "4", "5", "6", "7", "8", "9">>
LowerCase == <<"a", "b", "c", "d", "e", "f", "g", "h", "i", "j", "k", "l", "m",
               "n", "o", "p", "q", "r", "s", "t", "u", "v", "w", "x", "y", "z">>
UpperCase == <<"A", "B", "C", "D", "E", "F", "G", "H", "I", "J", "K", "L", "M",
               "N", "O", "P", "Q", "R", "S", "T", "U", "V", "W", "X", "Y", "Z">>
\* The characters of the model in code-point order (the order str comparison uses).
AsciiOrder == <<" ", "'", ",", "-", ".", "/">> \o Digits \o <<":">> \o UpperCase
              \o <<"_">> \o LowerCase

Range(f) == {f[i] : i \in DOMAIN f}
IsDigit(c) == c \in Range(Digits)
DigitVal(c) == (CHOOSE i \in DOMAIN Digits : Digits[i] = c) - 1
Ord(c) == CHOOSE i \in DOMAIN AsciiOrder : AsciiOrder[i] = c

\* str.startswith
StartsWith(s, p) == Len(s) >= Len(p) /\ SubSeq(s, 1, Len(p)) = p

\* s[i:] (1-based i)
Drop(s, i) == SubSeq(s, i, Len(s))

\* str.replace(old, new): every non-overlapping occurrence, scanning left to right.
RECURSIVE Replace(_, _, _)
Replace(s, old, new) ==
    IF s = <<>> \/ old = <<>> THEN s
    ELSE IF StartsWith(s, old) THEN new \o Replace(Drop(s, Len(old) + 1), old, new)
    ELSE <<Head(s)>> \o Replace(Tail(s), old, new)

\* str.upper, one character
UpperChar(c) ==
    IF c \in Range(LowerCase)
    THEN UpperCase[CHOOSE i \in DOMAIN LowerCase : LowerCase[i] = c]
    ELSE c
\* str.upper
Upper(s) == [i \in DOMAIN s |-> UpperChar(s[i])]

\* str.strip: leading and trailing whitespace removed
RECURSIVE LStrip(_)
LStrip(s) == IF s # <<>> /\ Head(s) = " " THEN LStrip(Tail(s)) ELSE s
RECURSIVE RStrip(_)
RStrip(s) == IF s # <<>> /\ s[Len(s)] = " " THEN RStrip(SubSeq(s, 1, Len(s) - 1)) ELSE s
Strip(s) == RStrip(LStrip(s))

\* index of the first occurrence of character c in s, 0 when absent
RECURSIVE IndexOf(_, _, _)
IndexOf(s, c, i) ==
    IF i > Len(s) THEN 0 ELSE IF s[i] = c THEN i ELSE IndexOf(s, c, i + 1)

\* str.split(sep) for a one-character separator
RECURSIVE Split(_, _)
Split(s, sep) ==
    LET k == IndexOf(s, sep, 1)
    IN  IF k = 0 THEN <<s>>
        ELSE <<SubSeq(s, 1, k - 1)>> \o Split(Drop(s, k + 1), sep)

\* str < str, by code points
RECURSIVE StrLess(_, _)
StrLess(a, b) ==
    IF b = <<>> THEN FALSE
    ELSE IF a = <<>> THEN TRUE
    ELSE IF Head(a) = Head(b) THEN StrLess(Tail(a), Tail(b))
    ELSE Ord(Head(a)) < Ord(Head(b))

(***************************************************************************)
(* Numbers: rationals in lowest terms.                                     *)
(***************************************************************************)
Abs(x) == IF x < 0 THEN -x ELSE x
RECURSIVE GCD(_, _)
GCD(a, b) == IF b = 0 THEN a ELSE GCD(b, a % b)
Rat(n, d) ==
    LET g == GCD(Abs(n), Abs(d))
        sg == IF d < 0 THEN -1 ELSE 1
    IN  IF n = 0 THEN [n |-> 0, d |-> 1] ELSE [n |-> sg * (n \div g), d |-> Abs(d) \div g]
RECURSIVE Pow10(_)
Pow10(k) == IF k = 0 THEN 1 ELSE 10 * Pow10(k - 1)

AllDigits(s) == \A i \in DOMAIN s : IsDigit(s[i])
RECURSIVE DigitsVal(_)
DigitsVal(s) == IF s = <<>> THEN 0 ELSE 10 * DigitsVal(SubSeq(s, 1, Len(s) - 1)) + DigitVal(s[Len(s)])

\* the sign of a numeric literal and the text after it
SignOf(s) == IF s # <<>> /\ Head(s) = "-" THEN -1 ELSE 1
Unsigned(s) == IF s # <<>> /\ Head(s) \in {"-", "+"} THEN Tail(s) ELSE s

\* int(str): surrounding whitespace, an optional sign, decimal digits.
\* [ok |-> FALSE] stands for ValueError.
ParseInt(s) ==
    LET u == Unsigned(Strip(s))
    IN  IF u # <<>> /\ AllDigits(u)
        THEN [ok |-> TRUE, n |-> SignOf(Strip(s)) * DigitsVal(u)]
        ELSE [ok |-> FALSE, n |-> 0]

\* float(str): surrounding whitespace, an optional sign, digits with an optional
\* fraction.  [ok |-> FALSE] stands for ValueError.  (Exponents, "inf" and "nan"
\* are not in the alphabet of the modelled inputs.)
ParseFloat(s) ==
    LET t == Strip(s)
        u == Unsigned(t)
        k == IndexOf(u, ".", 1)
        ip == IF k = 0 THEN u ELSE SubSeq(u, 1, k - 1)
        fp == IF k = 0 THEN <<>> ELSE Drop(u, k + 1)
    IN  IF (ip # <<>> \/ fp # <<>>) /\ AllDigits(ip) /\ AllDigits(fp)
        THEN [ok |-> TRUE,
              v |-> Rat(SignOf(t) * (DigitsVal(ip) * Pow10(Len(fp)) + DigitsVal(fp)), Pow10(Len(fp)))]
        ELSE [ok |-> FALSE, v |-> Rat(0, 1)]

\* float -> int truncation (astype(int))
Trunc(v) == IF v.n >= 0 THEN v.n \div v.d ELSE -((-v.n) \div v.d)

(***************************************************************************)
(* JSON values and DataFrame cells.                                        *)
(***************************************************************************)
Cell(t, s, v) == [t |-> t, s |-> s, n |-> v.n, d |-> v.d]
Null == Cell("null", <<>>, Rat(0, 1))          \* None / NaN
Absent == Cell("absent", <<>>, Rat(0, 1))      \* the key is not in the JSON object
Str(s) == Cell("str", s, Rat(0, 1))
IntCell(n) == Cell("int", <<>>, Rat(n, 1))
Float(v) == Cell("float", <<>>, v)
Dict(s) == Cell("dict", s, Rat(0, 1))          \* the JSON object {"value": s}
NumOf(c) == [n |-> c.n, d |-> c.d]
IsNumber(c) == c.t \in {"int", "float"}
IsNull(c) == c.t \in {"null", "absent"}        \* pd.isna

(***************************************************************************)
(* DataFrames: the column names in order, and the rows (functions from the *)
(* column names to cells) in order.                                        *)
(***************************************************************************)
CanonicalCols == <<"country", "countryiso3code", "date", "indicator_value">>
\* pd.DataFrame(columns=["country", "countryiso3code", "date", "indicator_value"])
EmptyCanonical == [cols |-> CanonicalCols, rows |-> <<>>]
\* pd.DataFrame()
EmptyFrame == [cols |-> <<>>, rows |-> <<>>]
\* DataFrame.empty
IsEmpty(df) == df.rows = <<>> \/ df.cols = <<>>

RECURSIVE SelectSeq2(_, _)
SelectSeq2(s, keep) ==
    IF s = <<>> THEN <<>>
    ELSE (IF keep[1] THEN <<Head(s)>> ELSE <<>>) \o SelectSeq2(Tail(s), Tail(keep))
\* the rows of s that satisfy Test, in order
Filter(s, Test(_)) == SelectSeq2(s, [i \in DOMAIN s |-> Test(s[i])])

\* what a call yields: the exception it raised ("none": it returned df) and the
\* notifications it emitted
Returned(df, ns) == [exc |-> "none", df |-> df, notes |-> ns]
Raised(e, ns) == [exc |-> e, df |-> EmptyFrame, notes |-> ns]
Note(level, msg) == [level |-> level, msg |-> msg]

(***************************************************************************)
(* Names used by the modelled inputs.                                      *)
(***************************************************************************)
sBrazil == <<"B", "r", "a", "z", "i", "l">>
sPeru == <<"P", "e", "r", "u">>
sAtlantis == <<"A", "t", "l", "a", "n", "t", "i", "s">>
sBRA == <<"B", "R", "A">>
sPER == <<"P", "E", "R">>
sWLD == <<"W", "L", "D">>
sAll == <<"a", "l", "l">>

(***************************************************************************)
(* Country Code Resolver.                                                  *)
(***************************************************************************)
\* pycountry.countries, as far as the modelled inputs reach: <<name, alpha_3>>
PyCountries == <<<<sBrazil, sBRA>>, <<sPeru, sPER>>>>

\* NAME_TO_ISO3.get(name): [ok |-> FALSE] stands for None
NameToIso3(name) ==
    IF \E i \in DOMAIN PyCountries : PyCountries[i][1] = name
    THEN [ok |-> TRUE, iso |-> PyCountries[CHOOSE i \in DOMAIN PyCountries : PyCountries[i][1] = name][2]]
    ELSE [ok |-> FALSE, iso |-> <<>>]

ResolverMutEmptyOnUnknown(iso_code) ==
    IF \E i \in DOMAIN PyCountries : PyCountries[i][2] = iso_code
    THEN PyCountries[CHOOSE i \in DOMAIN PyCountries : PyCountries[i][2] = iso_code][1]
    ELSE <<>>
\* get_country_name_or_code: countries.get() is None for an unknown code, .name
\* of None raises AttributeError, and the code itself is returned
get_country_name_or_code(iso_code) ==
    IF \E i \in DOMAIN PyCountries : PyCountries[i][2] = iso_code
    THEN PyCountries[CHOOSE i \in DOMAIN PyCountries : PyCountries[i][2] = iso_code][1]
    ELSE iso_code

(***************************************************************************)
(* HTTP transport.  A response is [status, body]; status is what           *)
(* requests.get/post, raise_for_status and response.json() did.            *)
(***************************************************************************)
TransportFailures == {"ConnectionError", "Timeout", "HTTPError", "JSONDecodeError"}
\* issubclass(e, requests.exceptions.RequestException): requests defines
\* ConnectionError, Timeout, HTTPError and JSONDecodeError (through
\* InvalidJSONError) as subclasses of RequestException
IsRequestException(e) == e \in {"ConnectionError", "Timeout", "HTTPError", "JSONDecodeError"}

(***************************************************************************)
(* DataFrame operations.                                                   *)
(***************************************************************************)
\* df[cols]
SelectCols(df, cols) ==
    [cols |-> cols,
     rows |-> [i \in DOMAIN df.rows |-> [c \in Range(cols) |-> df.rows[i][c]]]]

\* df.rename(columns={old: new})
RenameCol(df, old, new) ==
    LET newcols == [i \in DOMAIN df.cols |-> IF df.cols[i] = old THEN new ELSE df.cols[i]]
    IN  [cols |-> newcols,
         rows |-> [i \in DOMAIN df.rows |->
                     [c \in Range(newcols) |->
                        IF c = new /\ old \in Range(df.cols) THEN df.rows[i][old] ELSE df.rows[i][c]]]]

\* df.dropna(subset=subset)
DropNa(df, subset) ==
    LET Complete(row) == \A c \in subset : ~IsNull(row[c])
    IN  [cols |-> df.cols, rows |-> Filter(df.rows, Complete)]

\* df with column col replaced cell by cell
MapCol(df, col, F(_)) ==
    [cols |-> df.cols,
     rows |-> [i \in DOMAIN df.rows |-> [df.rows[i] EXCEPT ![col] = F(df.rows[i][col])]]]

(***************************************************************************)
(* World Bank adapter: get_worldbank_data.                                 *)
(***************************************************************************)
WBFields == <<"country", "countryiso3code", "date", "value">>
WBRecord(country, iso, date, value) ==
    [country |-> country, countryiso3code |-> iso, date |-> date, value |-> value]

\* pd.DataFrame.from_records(records): a column for every key that some record
\* has, NaN where a record lacks the key
FromRecords(records) ==
    LET present == {c \in Range(WBFields) : \E i \in DOMAIN records : records[i][c].t # "absent"}
        cols == Filter(WBFields, LAMBDA c : c \in present)
    IN  [cols |-> cols,
         rows |-> [i \in DOMAIN records |->
                     [c \in Range(cols) |->
                        IF records[i][c].t = "absent" THEN Null ELSE records[i][c]]]]

\* lambda x: x.get("value") if isinstance(x, dict) else x
WBCountryName(x) ==
    IF x.t = "dict" THEN Str(x.s)
    ELSE IF x.t = "dictnone" THEN Null
    ELSE x

\* pd.to_numeric(x, errors='coerce'), one cell
ToNumericCoerce(x) ==
    IF IsNumber(x) THEN x
    ELSE IF x.t = "str" /\ ParseFloat(x.s).ok THEN Float(ParseFloat(x.s).v)
    ELSE Null

\* astype(int), one cell
AsTypeInt(x) == IntCell(Trunc(NumOf(x)))

\* lines 166-168: the date column made numeric, rows without a numeric date dropped
WBCleanDates(df) ==
    MapCol(DropNa(MapCol(df, "date", ToNumericCoerce), {"date"}), "date", AsTypeInt)

WBMutNoRename(df) == DropNa(SelectCols(df, WBFields), {"value", "country"})
\* lines 158-160: the four columns kept, value renamed, rows without value or country dropped
WBKeepAndDrop(df) ==
    DropNa(RenameCol(SelectCols(df, WBFields), "value", "indicator_value"),
           {"indicator_value", "country"})

CatchTransportMutRaiseHTTP(status) ==
    IF status = "HTTPError" THEN Raised(status, <<>>)
    ELSE Returned(EmptyCanonical, <<Note("error", "API request failed")>>)
\* lines 125-134 (and the same try/except of the other adapters): the failure of
\* requests.get / raise_for_status / response.json() is caught by the first except
\* clause whose class it belongs to
CatchTransport(status) ==
    IF IsRequestException(status)
    THEN Returned(EmptyCanonical, <<Note("error", "API request failed")>>)
    ELSE IF status = "JSONDecodeError"
    THEN Returned(EmptyCanonical, <<Note("error", "Failed to decode JSON response")>>)
    ELSE Raised(status, <<>>)

\* lines 137-170: the decoded response turned into a table
WBProcess(data) ==
    IF data.t = "null" \/ data.elems = <<>> \/ Len(data.elems) < 2 \/ data.elems[2].t = "null"
    THEN Returned(EmptyCanonical, <<Note("warning", "World Bank API: No data returned")>>)
    ELSE
    LET df == FromRecords(data.elems[2].l)
    IN  IF IsEmpty(df)
        THEN Returned(EmptyCanonical, <<Note("warning", "World Bank API: No data found")>>)
        ELSE IF "country" \notin Range(df.cols)
        THEN Raised("KeyError", <<>>)      \* line 149: df["country"]
        ELSE IF \E c \in Range(WBFields) : c \notin Range(df.cols)
        THEN Returned(EmptyCanonical, <<Note("error", "World Bank API: Expected column not in response")>>)
        ELSE
        LET kept == WBKeepAndDrop(MapCol(df, "country", WBCountryName))
        IN  IF IsEmpty(kept)
            THEN Returned(EmptyCanonical, <<Note("warning", "World Bank API: no numeric values")>>)
            ELSE Returned(WBCleanDates(kept), <<>>)

\* get_worldbank_data from the response of its request on
WBRespond(resp) ==
    IF resp.status # "ok" THEN CatchTransport(resp.status) ELSE WBProcess(resp.body)

(***************************************************************************)
(* IMF adapter: get_imf_data.                                              *)
(*                                                                         *)
(* The decoded body is [t, values, key, blob]: t = "dict" for a JSON       *)
(* object, values says whether it has the key "values", key is the         *)
(* indicator under which data["values"] holds the blob, and blob lists the *)
(* blob's data points in iteration order, [iso, isdict, year, value]: the  *)
(* country key, whether its year_data is a JSON object, the year key and   *)
(* the value object.                                                       *)
(***************************************************************************)
IMFItem(iso, isdict, year, value) == [iso |-> iso, isdict |-> isdict, year |-> year, value |-> value]

IMFSentinels == {<<"-", "-">>, <<"N", "A">>, <<"n", "/", "a">>, <<>>}

\* lines 72-98, one data point: [ok |-> FALSE] when it is skipped, else its record
IMFPoint(item) ==
    LET year == ParseInt(item.year)
        value_str == Replace(Strip(item.value.s), <<",">>, <<>>)
        parsed == IF IsNumber(item.value) THEN [ok |-> TRUE, v |-> NumOf(item.value)]
                  ELSE IF value_str \in IMFSentinels THEN [ok |-> FALSE, v |-> Rat(0, 1)]
                  ELSE ParseFloat(value_str)
    IN  [ok |-> item.isdict /\ item.value.t # "null" /\ year.ok /\ parsed.ok,
         row |-> [countryiso3code |-> Str(Upper(item.iso)), date |-> IntCell(year.n),
                  indicator_value |-> Float(parsed.v)]]

RECURSIVE IMFMutAbortAtFirstBad(_)
IMFMutAbortAtFirstBad(blob) ==
    IF blob = <<>> \/ ~IMFPoint(Head(blob)).ok THEN <<>>
    ELSE <<IMFPoint(Head(blob)).row>> \o IMFMutAbortAtFirstBad(Tail(blob))
\* lines 71-98: the records of the blob's data points, in order
IMFRecords(blob) ==
    LET pts == [i \in DOMAIN blob |-> IMFPoint(blob[i])]
        kept == Filter(pts, LAMBDA p : p.ok)
    IN  [i \in DOMAIN kept |-> kept[i].row]

\* lines 104-112: the country column back-filled, the columns reordered
IMFFrame(records) ==
    [cols |-> CanonicalCols,
     rows |-> [i \in DOMAIN records |->
                 [c \in Range(CanonicalCols) |->
                    IF c = "country"
                    THEN Str(get_country_name_or_code(records[i]["countryiso3code"].s))
                    ELSE records[i][c]]]]

\* lines 61-112: the decoded response turned into a table
IMFProcess(indicator, data) ==
    IF data.t # "dict"
    THEN Raised("AttributeError", <<>>)     \* line 65: data.get
    ELSE
    LET data_blob == IF data.values /\ data.key = indicator THEN data.blob ELSE <<>>
        records == IMFRecords(data_blob)
    IN  IF data_blob = <<>>
        THEN Returned(EmptyCanonical, <<Note("error", "IMF API: 'values' or indicator key missing")>>)
        ELSE IF records = <<>>
        THEN Returned(EmptyCanonical, <<Note("error", "IMF API: No valid numeric data found")>>)
        ELSE Returned(IMFFrame(records), <<>>)

\* get_imf_data from the response of its request on
IMFRespond(indicator, resp) ==
    IF resp.status # "ok" THEN CatchTransport(resp.status) ELSE IMFProcess(indicator, resp.body)

(***************************************************************************)
(* Data Commons adapter: get_datacommons_data.                             *)
(*                                                                         *)
(* The countries argument is [t, s, l]: the string s (t = "str"), the list *)
(* of names l (t = "list"), or something else (t = "other").  The decoded  *)
(* body is [t, key, obs]: key is the variable under which every entity's   *)
(* var_data holds its observations, and obs lists the observations in      *)
(* iteration order, [dcid, date, value], those of one entity together.     *)
(***************************************************************************)
StrArg(s) == [t |-> "str", s |-> s, l |-> <<>>]
ListArg(l) == [t |-> "list", s |-> <<>>, l |-> l]
OtherArg == [t |-> "other", s |-> <<>>, l |-> <<>>]
DCObsItem(dcid, date, value) == [dcid |-> dcid, date |-> date, value |-> value]

DCEntitiesMutNoSkip(countries) ==
    LET iso_codes == IF countries.t = "str" /\ countries.s = sAll
                     THEN [i \in DOMAIN PyCountries |-> PyCountries[i][2]]
                     ELSE [i \in DOMAIN countries.l |-> NameToIso3(countries.l[i]).iso]
    IN  [ok |-> (countries.t = "str" /\ countries.s = sAll) \/ countries.t = "list",
         dcids |-> [i \in DOMAIN iso_codes |-> <<"c", "o", "u", "n", "t", "r", "y", "/">> \o iso_codes[i]]]
\* lines 195-203: [ok |-> FALSE] for an invalid countries parameter, else entity_dcids
DCEntities(countries) ==
    LET names == Filter(countries.l, LAMBDA c : NameToIso3(c).ok)
        iso_codes == IF countries.t = "str" /\ countries.s = sAll
                     THEN [i \in DOMAIN PyCountries |-> PyCountries[i][2]]
                     ELSE [i \in DOMAIN names |-> NameToIso3(names[i]).iso]
    IN  [ok |-> (countries.t = "str" /\ countries.s = sAll) \/ countries.t = "list",
         dcids |-> [i \in DOMAIN iso_codes |-> <<"c", "o", "u", "n", "t", "r", "y", "/">> \o iso_codes[i]]]

\* lines 254-263, one observation: "row" with its record, "skip" when the if
\* is false, "abort" when len(), int() or float() raises
DCObservation(o) ==
    LET truthy == (o.date.t = "str" /\ o.date.s # <<>>) \/ (IsNumber(o.date) /\ o.date.n # 0)
        present == o.value.t \notin {"null", "absent"}
        year == ParseInt(Split(o.date.s, "-")[1])
        value == IF IsNumber(o.value) THEN [ok |-> TRUE, v |-> NumOf(o.value)]
                 ELSE IF o.value.t = "str" THEN ParseFloat(o.value.s)
                 ELSE [ok |-> FALSE, v |-> Rat(0, 1)]
        iso_code == Upper(Split(o.dcid, "/")[Len(Split(o.dcid, "/"))])
    IN  [kind |-> IF ~(truthy /\ present) THEN "skip"
                  ELSE IF o.date.t # "str" THEN "abort"
                  ELSE IF Len(o.date.s) < 4 THEN "skip"
                  ELSE IF ~year.ok \/ ~value.ok THEN "abort"
                  ELSE "row",
         row |-> [country |-> Str(get_country_name_or_code(iso_code)),
                  countryiso3code |-> Str(iso_code),
                  date |-> IntCell(year.n),
                  indicator_value |-> Float(value.v)]]

\* lines 246-265: the records of the observations from the i-th on; an exception
\* ends the loop over the observations of its entity (aborted), the except clause
\* continues with the next entity
RECURSIVE DCRecords(_, _, _)
DCRecords(obs, i, aborted) ==
    IF i > Len(obs) THEN <<>>
    ELSE IF obs[i].dcid = aborted THEN DCRecords(obs, i + 1, aborted)
    ELSE LET r == DCObservation(obs[i])
         IN  IF r.kind = "abort" THEN DCRecords(obs, i + 1, obs[i].dcid)
             ELSE (IF r.kind = "row" THEN <<r.row>> ELSE <<>>) \o DCRecords(obs, i + 1, aborted)

\* line 280: [ok |-> FALSE] stands for the ValueError of int() or of the unpacking
DCDateRange(date) ==
    LET parts == Split(date, ":")
    IN  IF Len(parts) = 2 /\ ParseInt(parts[1]).ok /\ ParseInt(parts[2]).ok
        THEN [ok |-> TRUE, start_year |-> ParseInt(parts[1]).n, end_year |-> ParseInt(parts[2]).n]
        ELSE [ok |-> FALSE, start_year |-> 0, end_year |-> 0]

RatAdd(a, b) == Rat(a.n * b.d + b.n * a.d, a.d * b.d)
RECURSIVE RatSum(_)
RatSum(vs) == IF vs = <<>> THEN Rat(0, 1) ELSE RatAdd(Head(vs), RatSum(Tail(vs)))
\* Series.mean
Mean(vs) == LET t == RatSum(vs) IN Rat(t.n, t.d * Len(vs))

GroupKey(row) == <<row["country"].s, row["countryiso3code"].s, row["date"].n>>
KeyLess(a, b) ==
    \/ StrLess(a[1], b[1])
    \/ a[1] = b[1] /\ StrLess(a[2], b[2])
    \/ a[1] = b[1] /\ a[2] = b[2] /\ a[3] < b[3]
RECURSIVE SortKeys(_)
SortKeys(ks) ==
    IF ks = {} THEN <<>>
    ELSE LET m == CHOOSE k \in ks : \A o \in ks : o = k \/ KeyLess(k, o)
         IN  <<m>> \o SortKeys(ks \ {m})

\* line 292: groupby(['country', 'countryiso3code', 'date'])['indicator_value'].mean()
\* .reset_index(): one row per key, the keys in sorted order
DCGroupMean(df) ==
    LET keys == SortKeys({GroupKey(df.rows[i]) : i \in DOMAIN df.rows})
        Members(k) == Filter(df.rows, LAMBDA r : GroupKey(r) = k)
    IN  [cols |-> CanonicalCols,
         rows |-> [j \in DOMAIN keys |->
                     [country |-> Str(keys[j][1]), countryiso3code |-> Str(keys[j][2]),
                      date |-> IntCell(keys[j][3]),
                      indicator_value |->
                          Float(Mean([i \in DOMAIN Members(keys[j]) |->
                                        NumOf(Members(keys[j])[i]["indicator_value"])]))]]]

\* lines 222-235: HTTPError, then RequestException, then JSONDecodeError
DCCatchTransport(status) ==
    IF status = "HTTPError"
    THEN Returned(EmptyCanonical, <<Note("error", "Data Commons API request failed")>>)
    ELSE IF IsRequestException(status)
    THEN Returned(EmptyCanonical, <<Note("error", "Data Commons API connection failed")>>)
    ELSE IF status = "JSONDecodeError"
    THEN Returned(EmptyCanonical, <<Note("error", "Failed to decode JSON response")>>)
    ELSE Raised(status, <<>>)

\* lines 237-295: the decoded response turned into a table
DCProcess(indicator, date, data) ==
    IF data.t # "dict"
    THEN Raised("AttributeError", <<>>)     \* line 239: data.get
    ELSE IF data.obs = <<>>
    THEN Returned(EmptyCanonical, <<Note("warning", "Data Commons API: No data found for indicator")>>)
    ELSE
    LET records == IF data.key = indicator THEN DCRecords(data.obs, 1, <<>>) ELSE <<>>
        range == DCDateRange(date)
        InRange(r) == r["date"].n >= range.start_year /\ r["date"].n <= range.end_year
        df == [cols |-> CanonicalCols, rows |-> Filter(records, InRange)]
    IN  IF records = <<>>
        THEN Returned(EmptyCanonical, <<Note("error", "Data Commons API: No valid numeric data found")>>)
        ELSE IF ~range.ok
        THEN Returned(EmptyCanonical, <<Note("error", "Data Commons API: Could not apply date filter")>>)
        ELSE IF IsEmpty(df)
        THEN Returned(EmptyCanonical, <<Note("warning", "Data Commons API: No valid data in the range")>>)
        ELSE Returned(DCGroupMean(df), <<>>)

\* get_datacommons_data from the response of its request on
DCRespond(indicator, date, resp) ==
    IF resp.status # "ok" THEN DCCatchTransport(resp.status) ELSE DCProcess(indicator, date, resp.body)

(***************************************************************************)
(* Unified fetch facade: get_data.                                         *)
(***************************************************************************)
pWB == <<"W", "B", "_">>
pIMF == <<"I", "M", "F", "_">>
pDC == <<"D", "C", "_">>

DispatchMutWrongAdapter(indicator_code) ==
    IF StartsWith(indicator_code, pWB)
    THEN [adapter |-> "WB", indicator |-> Replace(indicator_code, pWB, <<>>)]
    ELSE IF StartsWith(indicator_code, pIMF)
    THEN [adapter |-> "DC", indicator |-> Replace(indicator_code, pIMF, <<>>)]
    ELSE IF StartsWith(indicator_code, pDC)
    THEN [adapter |-> "DC", indicator |-> Replace(indicator_code, pDC, <<>>)]
    ELSE [adapter |-> "none", indicator |-> <<>>]
DispatchMutContains(indicator_code) ==
    IF Replace(indicator_code, pWB, <<>>) # indicator_code
    THEN [adapter |-> "WB", indicator |-> Replace(indicator_code, pWB, <<>>)]
    ELSE IF StartsWith(indicator_code, pIMF)
    THEN [adapter |-> "IMF", indicator |-> Replace(indicator_code, pIMF, <<>>)]
    ELSE IF StartsWith(indicator_code, pDC)
    THEN [adapter |-> "DC", indicator |-> Replace(indicator_code, pDC, <<>>)]
    ELSE [adapter |-> "none", indicator |-> <<>>]
\* lines 308-318: the adapter the prefix selects and the indicator forwarded to it
Dispatch(indicator_code) ==
    IF StartsWith(indicator_code, pWB)
    THEN [adapter |-> "WB", indicator |-> Replace(indicator_code, pWB, <<>>)]
    ELSE IF StartsWith(indicator_code, pIMF)
    THEN [adapter |-> "IMF", indicator |-> Replace(indicator_code, pIMF, <<>>)]
    ELSE IF StartsWith(indicator_code, pDC)
    THEN [adapter |-> "DC", indicator |-> Replace(indicator_code, pDC, <<>>)]
    ELSE [adapter |-> "none", indicator |-> <<>>]

Invocation(adapter, indicator, countries, date) ==
    [adapter |-> adapter, indicator |-> indicator, countries |-> countries, date |-> date]
Request(api, method, indicator, countries, date, entities) ==
    [api |-> api, method |-> method, indicator |-> indicator, countries |-> countries,
     date |-> date, entities |-> entities]

\* An adapter from its call to its HTTP request: the request it sends, or, when
\* it returns before sending one, what it returns.
\*   get_worldbank_data lines 123-126, get_imf_data lines 48-51,
\*   get_datacommons_data lines 195-224
AdapterStart(adapter, indicator, countries, date) ==
    IF adapter = "WB"
    THEN [sent |-> <<Request("WB", "GET", indicator, countries, date, <<>>)>>,
          out |-> Returned(EmptyCanonical, <<>>)]
    ELSE IF adapter = "IMF"
    THEN [sent |-> <<Request("IMF", "GET", indicator, OtherArg, <<>>, <<>>)>>,
          out |-> Returned(EmptyCanonical, <<>>)]
    ELSE LET e == DCEntities(countries)
         IN  IF ~e.ok
             THEN [sent |-> <<>>,
                   out |-> Returned(EmptyCanonical, <<Note("error", "Data Commons API: Invalid 'countries' parameter")>>)]
             ELSE IF e.dcids = <<>>
             THEN [sent |-> <<>>,
                   out |-> Returned(EmptyCanonical, <<Note("error", "Data Commons API: Could not map provided countries")>>)]
             ELSE [sent |-> <<Request("DC", "POST", indicator, OtherArg, <<>>, e.dcids)>>,
                   out |-> Returned(EmptyCanonical, <<>>)]

AdapterRespondMutIMFFilters(inv, resp) ==
    IF inv.adapter = "WB" THEN WBRespond(resp)
    ELSE IF inv.adapter = "IMF"
    THEN LET out == IMFRespond(inv.indicator, resp)
             range == DCDateRange(inv.date)
             InRange(r) == IF range.ok
                           THEN r["date"].n >= range.start_year /\ r["date"].n <= range.end_year
                           ELSE r["date"].n = ParseInt(inv.date).n
         IN  [out EXCEPT !.df = [cols |-> out.df.cols, rows |-> Filter(out.df.rows, InRange)]]
    ELSE DCRespond(inv.indicator, inv.date, resp)
\* An adapter from the response of its request to its return.
AdapterRespond(inv, resp) ==
    IF inv.adapter = "WB" THEN WBRespond(resp)
    ELSE IF inv.adapter = "IMF" THEN IMFRespond(inv.indicator, resp)
    ELSE DCRespond(inv.indicator, inv.date, resp)

\* lines 320-323
InvalidPrefix == Returned(EmptyCanonical, <<Note("error", "Invalid indicator code prefix")>>)

NoCall == [fn |-> "none", code |-> <<>>, countries |-> OtherArg, date |-> <<>>]
NoReturn == [exc |-> "none", df |-> EmptyFrame]
NoResponse == [status |-> "none"]
NoScore == [exc |-> "none", score_df |-> EmptyFrame, components_df |-> EmptyFrame]
Yield(out) == [exc |-> out.exc, df |-> out.df]

Init ==
    /\ pc = "idle"
    /\ call = NoCall
    /\ invoked = <<>>
    /\ requests = <<>>
    /\ response = NoResponse
    /\ notes = <<>>
    /\ ret = NoReturn
    /\ idx = 0
    /\ fetched = <<>>
    /\ frames = <<>>
    /\ passed = EmptyFrame
    /\ arg_df = EmptyFrame
    /\ scored = NoScore
    /\ cache = <<>>

StoreMutOnlyData(memo, inv, out) ==
    IF out.exc = "none" /\ out.df.rows # <<>>
    THEN (inv :> [df |-> out.df, notes |-> out.notes]) @@ memo ELSE memo
\* st.cache_data: the value an adapter returned is stored under its arguments;
\* a call that raised stores nothing
Store(memo, inv, out) ==
    IF out.exc = "none" THEN (inv :> [df |-> out.df, notes |-> out.notes]) @@ memo ELSE memo
\* the stored value is returned and the notifications of the stored call are
\* replayed
Replay(memo, inv) == Returned(memo[inv].df, memo[inv].notes)

\* get_data(indicator_code, countries, date), up to the adapter's HTTP request
\* or, when none is sent, to its return
GetData(indicator_code, countries, date) ==
    /\ pc = "idle"
    /\ call' = [fn |-> "get_data", code |-> indicator_code, countries |-> countries, date |-> date]
    /\ LET d == Dispatch(indicator_code)
           inv == Invocation(d.adapter, d.indicator, countries, date)
           a == AdapterStart(d.adapter, d.indicator, countries, date)
       IN  IF d.adapter = "none"
           THEN /\ invoked' = invoked
                /\ requests' = requests
                /\ notes' = notes \o InvalidPrefix.notes
                /\ ret' = Yield(InvalidPrefix)
                /\ pc' = "done"
                /\ cache' = cache
           ELSE IF inv \in DOMAIN cache
           THEN /\ invoked' = Append(invoked, inv)
                /\ requests' = requests
                /\ notes' = notes \o Replay(cache, inv).notes
                /\ ret' = Yield(Replay(cache, inv))
                /\ pc' = "done"
                /\ cache' = cache
           ELSE /\ invoked' = Append(invoked, inv)
                /\ requests' = requests \o a.sent
                /\ notes' = notes \o a.out.notes
                /\ ret' = IF a.sent = <<>> THEN Yield(a.out) ELSE ret
                /\ pc' = IF a.sent = <<>> THEN "done" ELSE "wait"
                /\ cache' = IF a.sent = <<>> THEN Store(cache, inv, a.out) ELSE cache
    /\ UNCHANGED <<response, idx, fetched, frames, passed, arg_df, scored>>

HttpResponseMutRetry(resp) ==
    /\ pc = "wait"
    /\ call.fn = "get_data"
    /\ LET out == AdapterRespond(invoked[Len(invoked)], resp)
           again == resp.status # "ok" /\ Len(requests) < 2
       IN  /\ notes' = notes \o out.notes
           /\ ret' = IF again THEN ret ELSE Yield(out)
           /\ cache' = IF again THEN cache ELSE Store(cache, invoked[Len(invoked)], out)
           /\ requests' = IF again THEN Append(requests, requests[Len(requests)]) ELSE requests
           /\ pc' = IF again THEN "wait" ELSE "done"
    /\ response' = resp
    /\ UNCHANGED <<call, invoked, idx, fetched, frames, passed, arg_df, scored>>
\* the HTTP response arrives: the adapter runs to its return, and get_data
\* returns what the adapter returned
HttpResponse(resp) ==
    /\ pc = "wait"
    /\ call.fn = "get_data"
    /\ LET out == AdapterRespond(invoked[Len(invoked)], resp)
       IN  /\ notes' = notes \o out.notes
           /\ ret' = Yield(out)
           /\ cache' = Store(cache, invoked[Len(invoked)], out)
    /\ response' = resp
    /\ pc' = "done"
    /\ UNCHANGED <<call, invoked, requests, idx, fetched, frames, passed, arg_df, scored>>

(***************************************************************************)
(* The inputs of the model.                                                *)
(***************************************************************************)
SeqsUpTo(S, n) == UNION {[1..k -> S] : k \in 0..n}
\* the items with one key stand together, as in the iteration of a JSON object
Grouped(q, Key(_)) ==
    \A i, j, k \in DOMAIN q : (i < j /\ j < k /\ Key(q[i]) = Key(q[k])) => Key(q[j]) = Key(q[i])
\* no two items have the same key, as the keys of a JSON object
DistinctKeys(q, Key(_)) == \A i, j \in DOMAIN q : Key(q[i]) = Key(q[j]) => i = j

s2020 == <<"2", "0", "2", "0">>
s2021 == <<"2", "0", "2", "1">>
sX == <<"X">>
sD == <<"D">>
sC == <<"C">>

Codes == {pWB \o sX, pIMF \o sD, pDC \o sC, sX}
CountryArgs ==
    {StrArg(sAll), StrArg(sBRA), ListArg(<<sBrazil, sAtlantis>>), ListArg(<<sAtlantis>>),
     ListArg(<<sPeru, sAtlantis, sBrazil>>)}
DateArgs == {s2020 \o <<":">> \o s2021, s2020}

Failed(status) == [status |-> status, body |-> <<>>]
Ok(body) == [status |-> "ok", body |-> body]
FailedResponses == {Failed(e) : e \in TransportFailures}

\* World Bank
WBBody(t, elems) == [t |-> t, elems |-> elems]
WBElem(t, l) == [t |-> t, l |-> l]
WBMeta == WBElem("meta", <<>>)
WBRecordPool ==
    { WBRecord(Dict(sBrazil), Str(sBRA), Str(s2020), Str(<<"1", "5", "0", "0", "0", ".", "5">>)),
      WBRecord(Dict(sBrazil), Str(sBRA), Str(s2020), Float(Rat(7, 2))),
      WBRecord(Dict(sPeru), Str(sPER), Str(s2021), IntCell(7)),
      WBRecord(Dict(sBrazil), Str(sBRA), Str(s2021), Null),
      WBRecord(Dict(sPeru), Str(sPER), Str(<<"2", "0", "Q", "1">>), IntCell(3)),
      WBRecord(Dict(sPeru), Str(sPER), Str(s2020), Str(<<"a", "b", "c">>)),
      WBRecord(Absent, Str(sBRA), Str(s2020), IntCell(3)),
      WBRecord(Dict(sPeru), Absent, Str(s2020), IntCell(3)),
      WBRecord(Dict(sPeru), Str(sPER), Absent, IntCell(3)),
      WBRecord(Dict(sPeru), Str(sPER), Str(s2020), Absent) }
WBBodies ==
    {WBBody("null", <<>>), WBBody("list", <<>>), WBBody("list", <<WBMeta>>),
     WBBody("list", <<WBMeta, WBElem("null", <<>>)>>)}
    \cup {WBBody("list", <<WBMeta, WBElem("list", l)>>) : l \in SeqsUpTo(WBRecordPool, MaxRecs)}

\* IMF
IMFBody(t, values, key, blob) == [t |-> t, values |-> values, key |-> key, blob |-> blob]
IMFValuePool ==
    { Null, IntCell(5), Float(Rat(5, 2)), Str(<<"-", "-">>), Str(<<"N", "A">>),
      Str(<<"n", "/", "a">>), Str(<<>>), Str(<<" ", "1", ",", "2", "3", "4", ".", "5">>),
      Str(<<"a", "b", "c">>) }
IMFItemPool ==
    {IMFItem(sBRA, TRUE, s2020, v) : v \in IMFValuePool}
    \cup {IMFItem(k[1], TRUE, k[2], v) :
            k \in {<<sBRA, s2021>>, <<<<"b", "r", "a">>, s2020>>, <<sWLD, s2021>>},
            v \in {IntCell(5), Str(<<"-", "-">>), Str(<<" ", "1", ",", "2", "3", "4", ".", "5">>)}}
    \cup {IMFItem(sBRA, TRUE, <<"2", "0", "x", "0">>, IntCell(5)), IMFItem(sPER, FALSE, <<>>, Null)}
IMFKey(item) == <<item.iso, item.year>>
IMFIso(item) == item.iso
IMFBlobs ==
    {b \in SeqsUpTo(IMFItemPool, MaxPts) : DistinctKeys(b, IMFKey) /\ Grouped(b, IMFIso)}
IMFBodies ==
    {IMFBody("list", FALSE, <<>>, <<>>), IMFBody("dict", FALSE, <<>>, <<>>),
     IMFBody("dict", TRUE, sX, <<IMFItem(sBRA, TRUE, s2020, IntCell(5))>>)}
    \cup {IMFBody("dict", TRUE, sD, b) : b \in IMFBlobs}

\* Data Commons
DCBody(t, key, obs) == [t |-> t, key |-> key, obs |-> obs]
dcBRA == <<"c", "o", "u", "n", "t", "r", "y", "/">> \o sBRA
dcPER == <<"c", "o", "u", "n", "t", "r", "y", "/">> \o sPER
dcWLD == <<"c", "o", "u", "n", "t", "r", "y", "/">> \o sWLD
DCObsPool ==
    { DCObsItem(dcBRA, Str(s2020), IntCell(4)),
      DCObsItem(dcBRA, Str(s2020 \o <<"-", "0", "6">>), IntCell(7)),
      DCObsItem(dcBRA, Str(s2021 \o <<"-", "0", "1", "-", "1", "5">>), Str(<<"2", ".", "5">>)),
      DCObsItem(dcPER, Str(s2020), IntCell(1)),
      DCObsItem(dcWLD, Str(s2020), IntCell(2)),
      DCObsItem(dcBRA, Str(<<"1", "9", "9", "9">>), IntCell(9)),
      DCObsItem(dcBRA, Str(<<"a", "b", "c", "d">>), IntCell(3)),
      DCObsItem(dcBRA, Str(s2020), Str(<<"x">>)),
      DCObsItem(dcBRA, Str(<<"2", "0">>), IntCell(3)),
      DCObsItem(dcBRA, Str(s2020), Null),
      DCObsItem(dcBRA, IntCell(2020), IntCell(3)) }
DCDcid(o) == o.dcid
DCBodies ==
    {DCBody("list", <<>>, <<>>), DCBody("dict", sX, <<DCObsItem(dcBRA, Str(s2020), IntCell(4))>>)}
    \cup {DCBody("dict", sC, o) : o \in {q \in SeqsUpTo(DCObsPool, MaxObs) : Grouped(q, DCDcid)}}

\* the responses an adapter's request can get
WBResponses == FailedResponses \cup {Ok(b) : b \in WBBodies}
IMFResponses == FailedResponses \cup {Ok(b) : b \in IMFBodies}
DCResponses == FailedResponses \cup {Ok(b) : b \in DCBodies}
Waiting(adapter) == pc = "wait" /\ invoked # <<>> /\ invoked[Len(invoked)].adapter = adapter

Next ==
    \/ \E code \in Codes, countries \in CountryArgs, date \in DateArgs : GetData(code, countries, date)
    \/ Waiting("WB") /\ \E resp \in WBResponses : HttpResponse(resp)
    \/ Waiting("IMF") /\ \E resp \in IMFResponses : HttpResponse(resp)
    \/ Waiting("DC") /\ \E resp \in DCResponses : HttpResponse(resp)

Spec == Init /\ [][Next]_vars

(***************************************************************************)
(* The facade under many indicator codes and few responses.                *)
(***************************************************************************)
RECURSIVE Concat(_)
Concat(parts) == IF parts = <<>> THEN <<>> ELSE Head(parts) \o Concat(Tail(parts))
CodeParts == {sX, pWB, pIMF, pDC}
CodePrefixes == {pWB, pIMF, pDC, <<>>, <<"w", "b", "_">>, <<"U", "N", "_">>}
FacadeCodes == {p \o Concat(r) : p \in CodePrefixes, r \in SeqsUpTo(CodeParts, MaxParts)}
FacadeWBResponses ==
    FailedResponses \cup
    {Ok(WBBody("list", <<WBMeta, WBElem("list", <<WBRecord(Dict(sBrazil), Str(sBRA), Str(s2020), Float(Rat(7, 2)))>>)>>))}
FacadeIMFResponses ==
    FailedResponses \cup {Ok(IMFBody("dict", TRUE, sX, <<IMFItem(sBRA, TRUE, s2020, IntCell(5))>>))}
FacadeDCResponses ==
    FailedResponses \cup {Ok(DCBody("dict", sX, <<DCObsItem(dcBRA, Str(s2020), IntCell(4))>>))}

NextFacade ==
    \/ \E code \in FacadeCodes, countries \in CountryArgs, date \in DateArgs : GetData(code, countries, date)
    \/ Waiting("WB") /\ \E resp \in FacadeWBResponses : HttpResponse(resp)
    \/ Waiting("IMF") /\ \E resp \in FacadeIMFResponses : HttpResponse(resp)
    \/ Waiting("DC") /\ \E resp \in FacadeDCResponses : HttpResponse(resp)

SpecFacade == Init /\ [][NextFacade]_vars

(***************************************************************************)
(* Multi-indicator merger: fetch_and_merge_data.                           *)
(***************************************************************************)
\* indicator_codes: <<name, code>>, in the order of the dictionary
IndicatorCodes ==
    << <<"gini", <<"W", "B", "_", "S", "I", ".", "P", "O", "V", ".", "G", "I", "N", "I">>>>,
      <<"gender_ratio_labor", <<"W", "B", "_", "S", "L", ".", "T", "L", "F", ".", "C", "A", "C", "T", ".", "F", "M", ".", "Z", "S">>>>,
      <<"governance", <<"W", "B", "_", "R", "L", ".", "E", "S", "T">>>>,
      <<"school_enrollment", <<"W", "B", "_", "S", "E", ".", "S", "E", "C", ".", "E", "N", "R", "R">>>>,
      <<"life_expectancy", <<"W", "B", "_", "S", "P", ".", "D", "Y", "N", ".", "L", "E", "0", "0", ".", "I", "N">>>>,
      <<"access_to_electricity", <<"W", "B", "_", "E", "G", ".", "E", "L", "C", ".", "A", "C", "C", "S", ".", "Z", "S">>>> >>
\* the defaults of get_data's parameters: countries="all", date="2010:2023"
DefaultCountries == StrArg(sAll)
DefaultDate == <<"2", "0", "1", "0", ":", "2", "0", "2", "3">>
MergeKeys == <<"country", "countryiso3code", "date">>

DropDuplicatesMutNone(df) == df
\* drop_duplicates(subset=['countryiso3code', 'date']): the first row of each key
DropDuplicates(df) ==
    LET First(i) == \A j \in 1..(i - 1) :
                       \/ df.rows[j]["countryiso3code"] # df.rows[i]["countryiso3code"]
                       \/ df.rows[j]["date"] # df.rows[i]["date"]
    IN  [cols |-> df.cols, rows |-> SelectSeq2(df.rows, [i \in DOMAIN df.rows |-> First(i)])]

\* lines 29-32: the table of one indicator as it enters dataframes_to_merge
Prepare(df, name) == RenameCol(DropDuplicates(SelectCols(df, CanonicalCols)), "indicator_value", name)

\* sorted(rows) by Less, rows that compare equal keeping their order
StableSort(rows, Less(_, _)) ==
    LET pos == [i \in DOMAIN rows |->
                  Cardinality({j \in DOMAIN rows : Less(rows[j], rows[i])})
                  + Cardinality({j \in 1..i : ~Less(rows[j], rows[i]) /\ ~Less(rows[i], rows[j])})]
    IN  [p \in DOMAIN rows |-> rows[CHOOSE i \in DOMAIN rows : pos[i] = p]]

MergeKeyOf(row) == <<row["country"], row["countryiso3code"], row["date"]>>
MergeKeyLess(a, b) == KeyLess(GroupKey(a), GroupKey(b))
ValueCols(df) == Filter(df.cols, LAMBDA c : c \notin Range(MergeKeys))

\* the rows of a join: a row for every pair of a left and a right row with one
\* key; with outer, a row for every left and every right row without partner,
\* NaN in the columns of the other side
RECURSIVE FlattenRows(_)
FlattenRows(ss) == IF ss = <<>> THEN <<>> ELSE Head(ss) \o FlattenRows(Tail(ss))
JoinRows(left, right, outer) ==
    LET cols == left.cols \o ValueCols(right)
        Pair(l, r) == [c \in Range(cols) |-> IF c \in Range(left.cols) THEN l[c] ELSE r[c]]
        LeftOnly(l) == [c \in Range(cols) |-> IF c \in Range(left.cols) THEN l[c] ELSE Null]
        RightOnly(r) == [c \in Range(cols) |->
                           IF c \in Range(MergeKeys) \/ c \notin Range(left.cols) THEN r[c] ELSE Null]
        Alone(r) == \A i \in DOMAIN left.rows : MergeKeyOf(left.rows[i]) # MergeKeyOf(r)
        WithPartners(l) ==
            LET partners == Filter(right.rows, LAMBDA r : MergeKeyOf(r) = MergeKeyOf(l))
            IN  IF partners = <<>>
                THEN (IF outer THEN <<LeftOnly(l)>> ELSE <<>>)
                ELSE [j \in DOMAIN partners |-> Pair(l, partners[j])]
        paired == FlattenRows([i \in DOMAIN left.rows |-> WithPartners(left.rows[i])])
        alone == Filter(right.rows, Alone)
    IN  [cols |-> cols,
         rows |-> StableSort(paired \o (IF outer THEN [i \in DOMAIN alone |-> RightOnly(alone[i])]
                                                 ELSE <<>>),
                             MergeKeyLess)]

MergeMutInner(left, right) == JoinRows(left, right, FALSE)
MergeMutConcat(left, right) ==
    LET cols == left.cols \o ValueCols(right)
        LeftOnly(l) == [c \in Range(cols) |-> IF c \in Range(left.cols) THEN l[c] ELSE Null]
        RightOnly(r) == [c \in Range(cols) |->
                           IF c \in Range(MergeKeys) \/ c \notin Range(left.cols) THEN r[c] ELSE Null]
    IN  [cols |-> cols,
         rows |-> StableSort([i \in DOMAIN left.rows |-> LeftOnly(left.rows[i])]
                             \o [i \in DOMAIN right.rows |-> RightOnly(right.rows[i])],
                             MergeKeyLess)]
\* pd.merge(left, right, on=['country', 'countryiso3code', 'date'], how='outer')
Merge(left, right) == JoinRows(left, right, TRUE)

\* lines 38-43
RECURSIVE MergeFrom(_, _)
MergeFrom(merged_df, rest) ==
    IF rest = <<>> THEN merged_df ELSE MergeFrom(Merge(merged_df, Head(rest)), Tail(rest))

\* sort_values(by=['country', 'date'])
SortByCountryDate(df) ==
    LET Less(a, b) == \/ StrLess(a["country"].s, b["country"].s)
                      \/ a["country"].s = b["country"].s /\ a["date"].n < b["date"].n
    IN  [cols |-> df.cols, rows |-> StableSort(df.rows, Less)]

\* lines 35-45: what fetch_and_merge_data returns for dataframes_to_merge
MergeAll(dataframes_to_merge) ==
    IF dataframes_to_merge = <<>> THEN EmptyFrame
    ELSE SortByCountryDate(MergeFrom(Head(dataframes_to_merge), Tail(dataframes_to_merge)))

\* fetch_and_merge_data(), up to the HTTP request of its first get_data call
FetchAndMerge ==
    /\ pc = "idle"
    /\ call' = [fn |-> "fetch_and_merge_data", code |-> <<>>, countries |-> OtherArg, date |-> <<>>]
    /\ LET d == Dispatch(IndicatorCodes[1][2])
           a == AdapterStart(d.adapter, d.indicator, DefaultCountries, DefaultDate)
       IN  /\ invoked' = Append(invoked, Invocation(d.adapter, d.indicator, DefaultCountries, DefaultDate))
           /\ requests' = requests \o a.sent
    /\ pc' = "m_wait"
    /\ UNCHANGED <<response, notes, ret, idx, fetched, frames, passed, arg_df, scored, cache>>

\* the HTTP response of the running get_data call arrives: get_data returns, its
\* table is collected (lines 27-33), and the loop goes on to the request of the
\* next indicator or, after the last one, to the merge and the return
\* (lines 35-45); an exception of get_data ends fetch_and_merge_data
MergeResponse(resp) ==
    /\ pc = "m_wait"
    /\ response' = resp
    /\ LET out == AdapterRespond(invoked[Len(invoked)], resp)
           name == IndicatorCodes[idx + 1][1]
           collected == IF IsEmpty(out.df) THEN frames ELSE Append(frames, Prepare(out.df, name))
           last == idx + 1 = Len(IndicatorCodes)
           d == Dispatch(IndicatorCodes[idx + 2][2])
           a == AdapterStart(d.adapter, d.indicator, DefaultCountries, DefaultDate)
       IN  /\ notes' = notes \o out.notes
           /\ cache' = Store(cache, invoked[Len(invoked)], out)
           /\ IF out.exc # "none"
              THEN /\ ret' = Yield(out)
                   /\ pc' = "done"
                   /\ UNCHANGED <<invoked, requests, idx, fetched, frames>>
              ELSE /\ fetched' = Append(fetched, out.df)
                   /\ frames' = collected
                   /\ idx' = idx + 1
                   /\ IF last
                      THEN /\ ret' = [exc |-> "none", df |-> MergeAll(collected)]
                           /\ pc' = "done"
                           /\ UNCHANGED <<invoked, requests>>
                      ELSE /\ invoked' = Append(invoked, Invocation(d.adapter, d.indicator,
                                                                    DefaultCountries, DefaultDate))
                           /\ requests' = requests \o a.sent
                           /\ pc' = "m_wait"
                           /\ ret' = ret
    /\ UNCHANGED <<call, passed, arg_df, scored>>

MergeRecord(country, iso, date, value) == WBRecord(Dict(country), Str(iso), Str(date), value)
MergeResponses ==
    {Failed("ConnectionError")} \cup
    {Ok(WBBody("list", <<WBMeta, WBElem("list", l)>>)) : l \in
        { <<MergeRecord(sPeru, sPER, s2021, IntCell(7)), MergeRecord(sBrazil, sBRA, s2020, Float(Rat(7, 2)))>>,
          <<MergeRecord(sPeru, sPER, s2020, IntCell(1))>>,
          <<MergeRecord(sBrazil, sBRA, s2020, IntCell(3)), MergeRecord(sBrazil, sBRA, s2020, IntCell(4)),
            MergeRecord(sAtlantis, sBRA, s2020, IntCell(5))>>,
          <<WBRecord(Absent, Str(sBRA), Str(s2020), IntCell(3))>> }}

NextMerge ==
    \/ FetchAndMerge
    \/ \E resp \in MergeResponses : MergeResponse(resp)

SpecMerge == Init /\ [][NextMerge]_vars

(***************************************************************************)
(* Composite score: normalize, process_year_data, calculate_fairness_score *)
(* (groupby.apply as in pandas 2: the groups in ascending order of date,   *)
(* the rows of a group in their order in df).                              *)
(***************************************************************************)
RequiredCols ==
    <<"gini", "gender_ratio_labor", "governance", "school_enrollment",
      "life_expectancy", "access_to_electricity">>
ScoreComponents ==
    <<"norm_gini", "norm_gender_labor", "norm_governance", "norm_school",
      "norm_life_expectancy", "norm_electricity">>
\* lines 62-67: the column each component is normalized from
NormalizedFrom ==
    <<"gini_score", "gender_ratio_labor", "governance", "school_enrollment",
      "life_expectancy", "access_to_electricity">>

RatSub(a, b) == Rat(a.n * b.d - b.n * a.d, a.d * b.d)
RatDiv(a, b) == Rat(a.n * b.d, a.d * b.n)
RatLess(a, b) == a.n * b.d < b.n * a.d
RatMax(vs) == CHOOSE v \in Range(vs) : \A w \in Range(vs) : ~RatLess(v, w)
RatMin(vs) == CHOOSE v \in Range(vs) : \A w \in Range(vs) : ~RatLess(w, v)
Half == Rat(1, 2)
Hundred == Rat(100, 1)

NormalizeMutNoDegenerate(series) ==
    LET vs == [i \in DOMAIN series |-> NumOf(series[i])]
        span == RatSub(RatMax(vs), RatMin(vs))
    IN  [ok |-> TRUE,
         values |-> [i \in DOMAIN series |->
                       Float(IF span.n = 0 THEN Rat(0, 1)
                             ELSE RatDiv(RatSub(vs[i], RatMin(vs)), span))]]
NormalizeMutNoShift(series) ==
    LET vs == [i \in DOMAIN series |-> NumOf(series[i])]
        span == RatSub(RatMax(vs), RatMin(vs))
    IN  [ok |-> TRUE,
         values |-> [i \in DOMAIN series |->
                       Float(IF span.n = 0 THEN Half ELSE RatDiv(vs[i], span))]]
\* normalize(series), series a column of cells: [ok |-> FALSE] stands for the
\* TypeError of max() over mixed cells or of the subtraction of strings
normalize(series) ==
    IF \A i \in DOMAIN series : IsNumber(series[i])
    THEN LET vs == [i \in DOMAIN series |-> NumOf(series[i])]
             lo == RatMin(vs)
             hi == RatMax(vs)
         IN  [ok |-> TRUE,
              values |-> [i \in DOMAIN series |->
                            Float(IF hi = lo THEN Half
                                  ELSE RatDiv(RatSub(vs[i], lo), RatSub(hi, lo)))]]
    ELSE IF \A i, j \in DOMAIN series : series[i] = series[j]
    THEN [ok |-> TRUE, values |-> [i \in DOMAIN series |-> Float(Half)]]
    ELSE [ok |-> FALSE, values |-> <<>>]

\* row with the cell v in the column c
WithCol(row, c, v) == [k \in DOMAIN row \cup {c} |-> IF k = c THEN v ELSE row[k]]
ComponentIndex(c) == CHOOSE k \in DOMAIN ScoreComponents : ScoreComponents[k] = c

ProcessYearMutNoInvert(df_year) ==
    LET scored_rows == [i \in DOMAIN df_year |-> WithCol(df_year[i], "gini_score", df_year[i]["gini"])]
        norm == [k \in DOMAIN ScoreComponents |->
                   normalize([i \in DOMAIN df_year |-> scored_rows[i][NormalizedFrom[k]]])]
    IN  [ok |-> TRUE,
         rows |-> [i \in DOMAIN df_year |->
                     [c \in DOMAIN scored_rows[i] \cup Range(ScoreComponents) |->
                        IF c \in Range(ScoreComponents) THEN norm[ComponentIndex(c)].values[i]
                        ELSE scored_rows[i][c]]]]
\* process_year_data(df_year), df_year the rows of one year: [ok |-> FALSE]
\* stands for the TypeError of 100 - gini or of normalize
process_year_data(df_year) ==
    IF \E i \in DOMAIN df_year : ~IsNumber(df_year[i]["gini"])
    THEN [ok |-> FALSE, rows |-> <<>>]
    ELSE
    LET scored_rows == [i \in DOMAIN df_year |->
                          WithCol(df_year[i], "gini_score",
                                  Float(RatSub(Hundred, NumOf(df_year[i]["gini"]))))]
        norm == [k \in DOMAIN ScoreComponents |->
                   normalize([i \in DOMAIN df_year |-> scored_rows[i][NormalizedFrom[k]]])]
    IN  IF \E k \in DOMAIN norm : ~norm[k].ok
        THEN [ok |-> FALSE, rows |-> <<>>]
        ELSE [ok |-> TRUE,
              rows |-> [i \in DOMAIN df_year |->
                          [c \in DOMAIN scored_rows[i] \cup Range(ScoreComponents) |->
                             IF c \in Range(ScoreComponents) THEN norm[ComponentIndex(c)].values[i]
                             ELSE scored_rows[i][c]]]]

RECURSIVE SortInts(_)
SortInts(S) ==
    IF S = {} THEN <<>>
    ELSE LET m == CHOOSE x \in S : \A y \in S : x <= y IN <<m>> \o SortInts(S \ {m})

\* what calculate_fairness_score yields: the exception raised, the caller's
\* table after the call, the two tables returned and the notifications
ScoreResult(exc, df, score_df, components_df, ns) ==
    [exc |-> exc, df |-> df, score_df |-> score_df, components_df |-> components_df, notes |-> ns]

DropNaMutKeepAll(df, subset) == df
\* line 84: df.dropna(subset=required_cols); a label of the subset that is not
\* a column raises KeyError
DropRequired(df, subset) == DropNa(df, subset)

GroupByDateMutGlobal(df) == IF df.rows = <<>> THEN <<>> ELSE <<df.rows>>
\* line 93, groupby('date'): the rows of each date, the dates in ascending order
GroupByDate(df) ==
    LET dates == SortInts({df.rows[i]["date"].n : i \in DOMAIN df.rows})
    IN  [k \in DOMAIN dates |-> Filter(df.rows, LAMBDA r : r["date"].n = dates[k])]

ComponentColsMutNoIso == <<"country", "date">> \o ScoreComponents
\* line 112
ComponentCols == MergeKeys \o ScoreComponents

\* lines 76-115
calculate_fairness_score(df) ==
    IF \E c \in Range(RequiredCols) : c \notin Range(df.cols)
    THEN ScoreResult("KeyError", df, EmptyFrame, EmptyFrame, <<>>)
    ELSE
    LET dropped == DropRequired(df, Range(RequiredCols))
        by_date == GroupByDate(dropped)
        groups == [k \in DOMAIN by_date |-> process_year_data(by_date[k])]
        applied == FlattenRows([k \in DOMAIN groups |-> groups[k].rows])
        Total(row) == RatSum([k \in DOMAIN ScoreComponents |-> NumOf(row[ScoreComponents[k]])])
        score_df == [cols |-> df.cols \o <<"gini_score">> \o ScoreComponents \o <<"fairness_score">>,
                     rows |-> [i \in DOMAIN applied |->
                                 WithCol(applied[i], "fairness_score", Float(Total(applied[i])))]]
    IN  IF IsEmpty(dropped)
        THEN ScoreResult("none", dropped, EmptyFrame, EmptyFrame,
                         <<Note("warning", "No countries had a complete set of all 6 indicators")>>)
        ELSE IF \E k \in DOMAIN groups : ~groups[k].ok
        THEN ScoreResult("none", dropped, EmptyFrame, EmptyFrame,
                         <<Note("error", "An error occurred during score calculation")>>)
        ELSE ScoreResult("none", dropped, score_df, SelectCols(score_df, ComponentCols), <<>>)

\* calculate_fairness_score(df), from the call to the return
CalculateFairnessScore(df) ==
    /\ pc = "idle"
    /\ call' = [fn |-> "calculate_fairness_score", code |-> <<>>, countries |-> OtherArg, date |-> <<>>]
    /\ LET out == calculate_fairness_score(df)
       IN  /\ passed' = df
           /\ arg_df' = out.df
           /\ scored' = [exc |-> out.exc, score_df |-> out.score_df, components_df |-> out.components_df]
           /\ notes' = notes \o out.notes
    /\ pc' = "done"
    /\ UNCHANGED <<invoked, requests, response, ret, idx, fetched, frames, cache>>

(***************************************************************************)
(* The scorer under Merged Tables of up to MaxRows rows, sorted by country *)
(* and date as fetch_and_merge_data returns them.                          *)
(***************************************************************************)
sATL == <<"A", "T", "L">>
ScoreKey(country, iso, year) ==
    [country |-> Str(country), countryiso3code |-> Str(iso), date |-> IntCell(year)]
ScoreKeys ==
    << ScoreKey(sAtlantis, sATL, 2020), ScoreKey(sAtlantis, sATL, 2021),
       ScoreKey(sBrazil, sBRA, 2020), ScoreKey(sBrazil, sBRA, 2021),
       ScoreKey(sPeru, sPER, 2020), ScoreKey(sPeru, sPER, 2021) >>
\* the six indicators of a row, in the order of RequiredCols
ScoreProfiles ==
    { <<IntCell(20), IntCell(1), IntCell(1), IntCell(1), IntCell(1), IntCell(1)>>,
      <<IntCell(80), IntCell(2), Float(Rat(-3, 2)), IntCell(1), IntCell(3), IntCell(1)>>,
      <<IntCell(50), Float(Rat(3, 2)), IntCell(0), IntCell(1), IntCell(2), IntCell(4)>>,
      <<Null, IntCell(1), IntCell(1), IntCell(1), IntCell(1), IntCell(1)>>,
      <<IntCell(20), IntCell(2), Float(Rat(-3, 2)), IntCell(1), IntCell(3), Null>> }
MergedCols == MergeKeys \o RequiredCols
MergedRow(key, profile) ==
    [c \in Range(MergedCols) |->
        IF c \in Range(MergeKeys) THEN key[c]
        ELSE profile[CHOOSE k \in DOMAIN RequiredCols : RequiredCols[k] = c]]
MergedTable(S, f) ==
    LET order == SortInts(S)
    IN  [cols |-> MergedCols,
         rows |-> [j \in DOMAIN order |-> MergedRow(ScoreKeys[order[j]], f[order[j]])]]
WithoutCol(df, col) == SelectCols(df, Filter(df.cols, LAMBDA c : c # col))
FullTables ==
    UNION {{MergedTable(S, f) : f \in [S -> ScoreProfiles]} :
              S \in {T \in SUBSET DOMAIN ScoreKeys : Cardinality(T) <= MaxRows}}
\* the tables of the merger when the table of an indicator was empty, and the
\* table it returns when all were
LackingTables ==
    {WithoutCol(t, c) : t \in {u \in FullTables : Len(u.rows) = 1}, c \in Range(RequiredCols)}
    \cup {MergeAll(<<>>)}
ScoreTables == FullTables \cup LackingTables

NextScore == \E df \in ScoreTables : CalculateFairnessScore(df)

SpecScore == Init /\ [][NextScore]_vars

(***************************************************************************)
(* Several calls of get_data in one process: the adapters' cache lives on  *)
(* from call to call.                                                      *)
(***************************************************************************)
\* get_data has returned and the caller goes on to its next call of get_data
Resume ==
    /\ pc = "done"
    /\ call.fn = "get_data"
    /\ Len(invoked) < MaxCalls
    /\ pc' = "idle"
    /\ call' = NoCall
    /\ ret' = NoReturn
    /\ response' = NoResponse
    /\ notes' = <<>>
    /\ UNCHANGED <<invoked, requests, idx, fetched, frames, passed, arg_df, scored, cache>>

CacheCodes == {pWB \o sX, pDC \o sC}
CacheCountries == {StrArg(sAll), ListArg(<<sAtlantis>>)}
CacheDates == {s2020 \o <<":">> \o s2021}
CacheWBResponses ==
    FacadeWBResponses \cup
    {Ok(WBBody("list", <<WBMeta, WBElem("list", <<WBRecord(Absent, Str(sBRA), Str(s2020), IntCell(3))>>)>>))}
CacheDCResponses ==
    FailedResponses \cup {Ok(DCBody("dict", sC, <<DCObsItem(dcBRA, Str(s2020), IntCell(4))>>))}

NextCache ==
    \/ \E code \in CacheCodes, countries \in CacheCountries, date \in CacheDates :
          GetData(code, countries, date)
    \/ Waiting("WB") /\ \E resp \in CacheWBResponses : HttpResponse(resp)
    \/ Waiting("DC") /\ \E resp \in CacheDCResponses : HttpResponse(resp)
    \/ Resume

SpecCache == Init /\ [][NextCache]_vars

(***************************************************************************)
(* Properties.                                                             *)
(***************************************************************************)
InGetData == call.fn = "get_data" /\ pc \in {"wait", "done"}
Recognised(code) == StartsWith(code, pWB) \/ StartsWith(code, pIMF) \/ StartsWith(code, pDC)
PrefixOf(code) ==
    IF StartsWith(code, pWB) THEN pWB ELSE IF StartsWith(code, pIMF) THEN pIMF ELSE pDC
AdapterOf(code) ==
    IF StartsWith(code, pWB) THEN "WB" ELSE IF StartsWith(code, pIMF) THEN "IMF" ELSE "DC"
IsEmptyCanonical(df) == df.cols = CanonicalCols /\ df.rows = <<>>
\* the adapter invoked last, "none" when none was
Adapter == IF invoked = <<>> THEN "none" ELSE invoked[Len(invoked)].adapter

\* C1: a call of get_data whose indicator_code starts with WB_, IMF_ or DC_
\* invokes exactly one adapter, the one of the prefix, with countries and date
\* unchanged, and returns what that adapter returns.
C1_PrefixSelectsAdapter ==
    (InGetData /\ Recognised(call.code)) =>
        /\ Len(invoked) = 1
        /\ invoked[1].adapter = AdapterOf(call.code)
        /\ invoked[1].countries = call.countries
        /\ invoked[1].date = call.date
        /\ (pc = "done" /\ requests # <<>>) => ret = Yield(AdapterRespond(invoked[1], response))
        /\ (pc = "done" /\ requests = <<>>) =>
              ret = Yield(AdapterStart(invoked[1].adapter, invoked[1].indicator,
                                       call.countries, call.date).out)
C1_Witness ==
    /\ InGetData /\ pc = "done"
    /\ StartsWith(call.code, pIMF)
    /\ call.countries = ListArg(<<sBrazil, sAtlantis>>)
    /\ Adapter = "IMF"
    /\ ret.df.rows # <<>>

\* C2: the indicator forwarded to the adapter is indicator_code without its
\* leading prefix, the remainder character for character.
C2_ForwardsRemainder ==
    (InGetData /\ Recognised(call.code)) =>
        /\ invoked # <<>>
        /\ invoked[1].indicator = Drop(call.code, Len(PrefixOf(call.code)) + 1)

\* C3: a call of get_data whose indicator_code starts with no recognised prefix
\* invokes no adapter, sends no HTTP request, emits one error notification,
\* raises nothing and returns an empty table with the four canonical columns.
C3_UnknownPrefix ==
    (call.fn = "get_data" /\ pc # "idle" /\ ~Recognised(call.code)) =>
        /\ pc = "done"
        /\ invoked = <<>>
        /\ requests = <<>>
        /\ Len(notes) = 1 /\ notes[1].level = "error"
        /\ ret.exc = "none"
        /\ IsEmptyCanonical(ret.df)
C3_Witness ==
    /\ call.fn = "get_data" /\ pc = "done"
    /\ call.code = sX \o pWB
    /\ requests = <<>> /\ Len(notes) = 1

\* C4: when the HTTP request of an adapter fails, gets an HTTP error status or a
\* body that is not JSON, the adapter emits an error notification, raises
\* nothing and returns an empty table with the four canonical columns.
C4_TransportFailure ==
    (InGetData /\ pc = "done" /\ response.status \in TransportFailures) =>
        /\ ret.exc = "none"
        /\ IsEmptyCanonical(ret.df)
        /\ notes # <<>> /\ notes[Len(notes)].level = "error"
C4_Witness ==
    /\ InGetData /\ pc = "done"
    /\ Adapter = "DC"
    /\ response.status = "JSONDecodeError"
    /\ IsEmptyCanonical(ret.df)

\* C5: every table that get_data or an adapter returns, on a success or a
\* failure branch, has exactly the columns country, countryiso3code, date,
\* indicator_value.
C5_CanonicalColumns ==
    (InGetData /\ pc = "done" /\ ret.exc = "none") =>
        /\ ret.df.cols = CanonicalCols
        /\ \A i \in DOMAIN ret.df.rows : DOMAIN ret.df.rows[i] = Range(CanonicalCols)
C5_Witness ==
    /\ InGetData /\ pc = "done"
    /\ Adapter = "WB"
    /\ Len(ret.df.rows) = 2

\* C6: in every row an adapter returns the year is an integer and the value a
\* non-null number, never a string; the World Bank record of Brazil with date
\* "2020" and value "15000.5" yields the row (Brazil, BRA, 2020, 15000.5).
C6_NumericYearAndValue ==
    (InGetData /\ pc = "done" /\ ret.exc = "none") =>
        \A i \in DOMAIN ret.df.rows :
            /\ ret.df.rows[i]["date"].t = "int"
            /\ IsNumber(ret.df.rows[i]["indicator_value"])

\* C7: no two rows of the table an adapter returns have the same
\* (countryiso3code, year).
C7_UniqueKeys ==
    (InGetData /\ pc = "done" /\ ret.exc = "none") =>
        \A i, j \in DOMAIN ret.df.rows :
            (/\ ret.df.rows[i]["countryiso3code"] = ret.df.rows[j]["countryiso3code"]
             /\ ret.df.rows[i]["date"] = ret.df.rows[j]["date"]) => i = j

\* C8: get_worldbank_data raises nothing on a decoded response of unexpected
\* shape (an envelope of fewer than two elements, a null or empty second
\* element, records lacking one of country / countryiso3code / date / value,
\* only non-numeric years or values): it returns an empty canonical table, and
\* no row with a non-numeric year or value is in its output.
WBShapeUnexpected(data) ==
    \/ data.t = "null" \/ Len(data.elems) < 2
    \/ data.elems[2].t = "null" \/ data.elems[2].l = <<>>
    \/ \E c \in Range(WBFields) : \A i \in DOMAIN data.elems[2].l : data.elems[2].l[i][c].t = "absent"
C8_WBToleratesShape ==
    (InGetData /\ pc = "done" /\ Adapter = "WB" /\ response.status = "ok") =>
        /\ ret.exc = "none"
        /\ WBShapeUnexpected(response.body) => IsEmptyCanonical(ret.df)
        /\ \A i \in DOMAIN ret.df.rows :
              IsNumber(ret.df.rows[i]["date"]) /\ IsNumber(ret.df.rows[i]["indicator_value"])

\* C9: in the IMF adapter a data point whose value is null, a sentinel ("--",
\* "NA", "n/a", "") or not a number, or whose year key is not an integer,
\* yields no row at all, and every other data point of the response yields its
\* row.  The data points that must yield a row, and the row of each, are listed
\* here for the modelled inputs without the adapter's parsing.
IMFUnusable(item) ==
    \/ ~item.isdict
    \/ item.year \notin {s2020, s2021}
    \/ item.value.t = "null"
    \/ item.value.t = "str" /\ item.value.s \in
          {<<"-", "-">>, <<"N", "A">>, <<"n", "/", "a">>, <<>>, <<"a", "b", "c">>}
IMFExpected(item) ==
    <<IF item.iso = <<"b", "r", "a">> THEN sBRA ELSE item.iso,
      IF item.year = s2020 THEN 2020 ELSE 2021,
      IF item.value.t = "str" THEN Rat(2469, 2) ELSE NumOf(item.value)>>
IMFRowTriple(row) == <<row["countryiso3code"].s, row["date"].n, NumOf(row["indicator_value"])>>
IMFAnswered ==
    /\ InGetData /\ pc = "done" /\ Adapter = "IMF"
    /\ response.status = "ok" /\ response.body.t = "dict"
    /\ response.body.values /\ response.body.key = invoked[1].indicator
C9_IMFSkipsPerPoint ==
    IMFAnswered =>
        LET usable == Filter(response.body.blob, LAMBDA item : ~IMFUnusable(item))
        IN  /\ ret.exc = "none"
            /\ [i \in DOMAIN ret.df.rows |-> IMFRowTriple(ret.df.rows[i])]
                  = [i \in DOMAIN usable |-> IMFExpected(usable[i])]
            /\ \A i \in DOMAIN ret.df.rows :
                  ret.df.rows[i]["date"].t = "int" /\ ret.df.rows[i]["indicator_value"].t = "float"
C9_Witness ==
    /\ IMFAnswered
    /\ Len(response.body.blob) = 2
    /\ response.body.blob[1].value = Str(<<"-", "-">>)
    /\ response.body.blob[1].iso = sBRA
    /\ response.body.blob[2].iso = sBRA
    /\ Len(ret.df.rows) = 1

\* C10: fetch_and_merge_data skips every indicator whose table is empty and
\* merges the others: with at least one non-empty table the Merged Table is
\* non-empty and has one value column, named by the semantic name, for each
\* non-empty indicator; with none it is an empty table; nothing is raised.
MergeReturned ==
    call.fn = "fetch_and_merge_data" /\ pc = "done" /\ Len(fetched) = Len(IndicatorCodes)
C10_MergeSkipsEmpty ==
    MergeReturned =>
        LET kept == Filter([i \in DOMAIN fetched |-> i], LAMBDA i : fetched[i].rows # <<>>)
        IN  /\ ret.exc = "none"
            /\ Len(frames) = Len(kept)
            /\ kept = <<>> => ret.df.rows = <<>>
            /\ kept # <<>> =>
                  /\ ret.df.rows # <<>>
                  /\ ret.df.cols = MergeKeys \o [k \in DOMAIN kept |-> IndicatorCodes[kept[k]][1]]
                  /\ \A i \in DOMAIN ret.df.rows : DOMAIN ret.df.rows[i] = Range(ret.df.cols)
C10_Witness ==
    /\ MergeReturned
    /\ fetched[1].rows = <<>>
    /\ fetched[2].rows # <<>>
    /\ fetched[3].rows # <<>>
    /\ Len(ret.df.cols) = 5
    /\ ret.df.rows # <<>>

\* C11: the keys (country, countryiso3code, date) of the Merged Table are the
\* union of the keys of the non-empty indicator tables, and a row whose key an
\* indicator's table lacks has a null in the column of that indicator.
C11_KeysAreUnion ==
    (MergeReturned /\ ret.exc = "none") =>
        LET KeysOf(df) == {MergeKeyOf(df.rows[i]) : i \in DOMAIN df.rows}
        IN  /\ KeysOf(ret.df) = UNION {KeysOf(fetched[i]) : i \in DOMAIN fetched}
            /\ \A r \in DOMAIN ret.df.rows : \A i \in DOMAIN fetched :
                  (fetched[i].rows # <<>> /\ MergeKeyOf(ret.df.rows[r]) \notin KeysOf(fetched[i]))
                      => IsNull(ret.df.rows[r][IndicatorCodes[i][1]])

\* the scorer has returned or raised
Scored == call.fn = "calculate_fairness_score" /\ pc = "done"
Complete(row) == \A c \in Range(RequiredCols) : c \in DOMAIN row /\ ~IsNull(row[c])
RowsOfYear(df, y) == Filter(df.rows, LAMBDA r : r["date"].n = y)
YearsOf(df) == {df.rows[i]["date"].n : i \in DOMAIN df.rows}
Num(row, c) == NumOf(row[c])
Zero == Rat(0, 1)
One == Rat(1, 1)

\* C12: a row of the Merged Table is in the scored output, with its six
\* indicators, if and only if all six are non-null in it; the output has no
\* other row.
C12_ScoredIffComplete ==
    Scored =>
        LET out == scored.score_df.rows
            InOutput(row) == \E j \in DOMAIN out :
                                \A c \in Range(MergedCols) : out[j][c] = row[c]
        IN  /\ \A i \in DOMAIN passed.rows : InOutput(passed.rows[i]) <=> Complete(passed.rows[i])
            /\ Len(out) = Len(Filter(passed.rows, Complete))
C12_Witness ==
    /\ Scored
    /\ \E i, j \in DOMAIN passed.rows :
          /\ passed.rows[i]["country"] = passed.rows[j]["country"]
          /\ passed.rows[i]["date"].n = 2020 /\ ~Complete(passed.rows[i])
          /\ passed.rows[j]["date"].n = 2021 /\ Complete(passed.rows[j])
    /\ Len(scored.score_df.rows) = 2

\* C13: in every year of the scored output and for every component, when the
\* values the component is normalized from differ, the rows with the least value
\* get 0, the rows with the greatest get 1 and the others lie strictly between;
\* when they are all equal, every row gets 0.5.
C13_MinMaxPerYear ==
    Scored =>
        \A y \in YearsOf(scored.score_df) : \A k \in DOMAIN ScoreComponents :
            LET rows == RowsOfYear(scored.score_df, y)
                from == [i \in DOMAIN rows |-> Num(rows[i], NormalizedFrom[k])]
                lo == RatMin(from)
                hi == RatMax(from)
            IN  \A i \in DOMAIN rows :
                    LET v == Num(rows[i], ScoreComponents[k])
                    IN  IF lo = hi THEN v = Half
                        ELSE IF from[i] = lo THEN v = Zero
                        ELSE IF from[i] = hi THEN v = One
                        ELSE RatLess(Zero, v) /\ RatLess(v, One)
C13_Witness ==
    /\ Scored
    /\ \E y \in YearsOf(scored.score_df) :
          LET rows == RowsOfYear(scored.score_df, y)
          IN  /\ Len(rows) = 3
              /\ Cardinality({rows[i]["gini"] : i \in DOMAIN rows}) = 3
              /\ \E i \in DOMAIN rows : Num(rows[i], "norm_gini") = Half
              /\ \A i \in DOMAIN rows : Num(rows[i], "norm_school") = Half
    /\ \E i \in DOMAIN scored.score_df.rows : Num(scored.score_df.rows[i], "norm_life_expectancy") = One

\* C14: in every row of the scored output each normalized component lies in
\* [0, 1], and fairness_score is their sum and lies in [0, 6].
C14_ScoreBounds ==
    Scored =>
        \A i \in DOMAIN scored.score_df.rows :
            LET row == scored.score_df.rows[i]
                total == RatSum([k \in DOMAIN ScoreComponents |-> Num(row, ScoreComponents[k])])
            IN  /\ \A k \in DOMAIN ScoreComponents :
                      /\ ~RatLess(Num(row, ScoreComponents[k]), Zero)
                      /\ ~RatLess(One, Num(row, ScoreComponents[k]))
                /\ Num(row, "fairness_score") = total
                /\ ~RatLess(total, Zero)
                /\ ~RatLess(Rat(Len(ScoreComponents), 1), total)
C14_Witness ==
    /\ Scored
    /\ \E i, j \in DOMAIN scored.score_df.rows :
          /\ Num(scored.score_df.rows[i], "fairness_score") = Rat(18, 5)
          /\ Num(scored.score_df.rows[j], "fairness_score") = Rat(5, 2)

\* C15: the gini is inverted before it is normalized: of two rows of a year the
\* one with the lower gini never has the lower norm_gini, and in a year of
\* exactly two rows with gini 20 and 80 their norm_gini are 1 and 0.
C15_GiniInverted ==
    Scored =>
        \A y \in YearsOf(scored.score_df) :
            LET rows == RowsOfYear(scored.score_df, y)
            IN  /\ \A i, j \in DOMAIN rows :
                      RatLess(Num(rows[i], "gini"), Num(rows[j], "gini"))
                          => ~RatLess(Num(rows[i], "norm_gini"), Num(rows[j], "norm_gini"))
                /\ \A i, j \in DOMAIN rows :
                      (Len(rows) = 2 /\ Num(rows[i], "gini") = Rat(20, 1)
                                     /\ Num(rows[j], "gini") = Rat(80, 1))
                          => (Num(rows[i], "norm_gini") = One /\ Num(rows[j], "norm_gini") = Zero)
C15_Witness ==
    /\ Scored
    /\ \E y \in YearsOf(scored.score_df) :
          LET rows == RowsOfYear(scored.score_df, y)
          IN  /\ Len(rows) = 2
              /\ \E i, j \in DOMAIN rows :
                    /\ Num(rows[i], "gini") = Rat(20, 1) /\ Num(rows[i], "norm_gini") = One
                    /\ Num(rows[j], "gini") = Rat(80, 1) /\ Num(rows[j], "norm_gini") = Zero

\* C16: calculate_fairness_score of a table that lacks a required column, the
\* table without columns included, raises nothing, reports a warning and
\* returns two empty tables.
C16_MissingColumnWarns ==
    (Scored /\ \E c \in Range(RequiredCols) : c \notin Range(passed.cols)) =>
        /\ scored.exc = "none"
        /\ \E n \in DOMAIN notes : notes[n].level = "warning"
        /\ IsEmpty(scored.score_df) /\ IsEmpty(scored.components_df)

\* C17: on success the two tables returned have the same rows in the same
\* order: the full table with the raw indicators, the normalized components and
\* fairness_score, and the components table with exactly country,
\* countryiso3code, date and the six normalized components.
C17_TwoTables ==
    (Scored /\ scored.exc = "none" /\ scored.score_df.rows # <<>>) =>
        LET full == scored.score_df
            comp == scored.components_df
        IN  /\ comp.cols = <<"country", "countryiso3code", "date">> \o ScoreComponents
            /\ Range(MergedCols) \cup Range(ScoreComponents) \cup {"fairness_score"} \subseteq Range(full.cols)
            /\ Len(comp.rows) = Len(full.rows)
            /\ \A i \in DOMAIN full.rows :
                  /\ DOMAIN full.rows[i] = Range(full.cols)
                  /\ DOMAIN comp.rows[i] = Range(comp.cols)
                  /\ \A c \in Range(comp.cols) : comp.rows[i][c] = full.rows[i][c]
C17_Witness ==
    /\ Scored
    /\ Len(scored.score_df.rows) = 3
    /\ Len(scored.components_df.rows) = 3
    /\ scored.components_df.rows[1]["countryiso3code"] # scored.components_df.rows[3]["countryiso3code"]

\* the Data Commons adapter has processed a decoded response for its indicator
\* under a date range start:end
DCAnswered ==
    /\ call.fn = "get_data" /\ pc = "done" /\ Adapter = "DC"
    /\ response.status = "ok" /\ response.body.t = "dict"
    /\ response.body.key = invoked[Len(invoked)].indicator
    /\ DCDateRange(call.date).ok
\* an observation with a date of at least four characters whose year is an
\* integer and with a value that is a number
DCValid(o) ==
    /\ o.date.t = "str" /\ Len(o.date.s) >= 4 /\ ParseInt(Split(o.date.s, "-")[1]).ok
    /\ IsNumber(o.value) \/ (o.value.t = "str" /\ ParseFloat(o.value.s).ok)
DCYear(o) == ParseInt(Split(o.date.s, "-")[1]).n
DCValue(o) == IF IsNumber(o.value) THEN NumOf(o.value) ELSE ParseFloat(o.value.s).v
DCInRange(y) == DCDateRange(call.date).start_year <= y /\ y <= DCDateRange(call.date).end_year
DCIso(dcid) == Upper(Split(dcid, "/")[Len(Split(dcid, "/"))])
\* the valid observations of the response whose year is in the requested range
DCValidInRange == Filter(response.body.obs, LAMBDA o : DCValid(o) /\ DCInRange(DCYear(o)))
DCRowsOf(dcid, y) ==
    Filter(ret.df.rows, LAMBDA r : r["countryiso3code"].s = DCIso(dcid) /\ r["date"].n = y)

\* C18: the Data Commons adapter returns exactly one row for every entity and
\* calendar year with a valid observation in the requested range, and the value
\* of the row is the mean of all valid observations of the entity in the year.
C18_OneRowPerEntityYear ==
    DCAnswered =>
        LET valid == DCValidInRange
            keys == {<<valid[i].dcid, DCYear(valid[i])>> : i \in DOMAIN valid}
            Of(k) == Filter(valid, LAMBDA o : o.dcid = k[1] /\ DCYear(o) = k[2])
        IN  /\ Len(ret.df.rows) = Cardinality(keys)
            /\ \A k \in keys :
                  /\ Len(DCRowsOf(k[1], k[2])) = 1
                  /\ NumOf(DCRowsOf(k[1], k[2])[1]["indicator_value"])
                        = Mean([i \in DOMAIN Of(k) |-> DCValue(Of(k)[i])])

\* C19: under the date range start:end the Data Commons adapter returns only
\* rows of the years start..end, a row for every entity and year of the range
\* with a valid observation, and the table it returns for the response without
\* the observations of other years.
C19_RangeFilter ==
    DCAnswered =>
        LET valid == DCValidInRange
            Outside(o) == o.date.t = "str" /\ Len(o.date.s) >= 4
                          /\ ParseInt(Split(o.date.s, "-")[1]).ok /\ ~DCInRange(DCYear(o))
            inside == Filter(response.body.obs, LAMBDA o : ~Outside(o))
        IN  /\ \A i \in DOMAIN ret.df.rows : DCInRange(ret.df.rows[i]["date"].n)
            /\ \A i \in DOMAIN valid : DCRowsOf(valid[i].dcid, DCYear(valid[i])) # <<>>
            /\ inside # <<>> =>
                  ret.df = DCProcess(response.body.key, call.date,
                                     DCBody("dict", response.body.key, inside)).df

\* C20: the Data Commons adapter called with a list of names requests exactly
\* the entities country/<ISO3> of the names in the name-to-ISO3 mapping, in
\* their order; when no name maps, or countries is neither "all" nor a list, it
\* notifies an error, returns the empty canonical table and sends no request.
C20_EntitiesOfNames ==
    (InGetData /\ Adapter = "DC") =>
        LET names == call.countries.l
            Mapped(c) == \E i \in DOMAIN PyCountries : PyCountries[i][1] = c
            IsoOf(c) == PyCountries[CHOOSE i \in DOMAIN PyCountries : PyCountries[i][1] = c][2]
            mapped == Filter(names, Mapped)
            Refused == /\ requests = <<>> /\ pc = "done"
                       /\ ret.exc = "none" /\ IsEmptyCanonical(ret.df)
                       /\ Len(notes) = 1 /\ notes[1].level = "error"
        IN  /\ (call.countries.t = "list" /\ mapped # <<>>) =>
                  /\ Len(requests) = 1
                  /\ requests[1].entities
                        = [i \in DOMAIN mapped |-> <<"c", "o", "u", "n", "t", "r", "y", "/">> \o IsoOf(mapped[i])]
            /\ (call.countries.t = "list" /\ mapped = <<>>) => Refused
            /\ (call.countries.t # "list" /\ call.countries # StrArg(sAll)) => Refused
C20_Witness ==
    /\ InGetData /\ Adapter = "DC"
    /\ call.countries = ListArg(<<sPeru, sAtlantis, sBrazil>>)
    /\ Len(requests) = 1
    /\ requests[1].entities = <<dcPER, dcBRA>>
    /\ pc = "done" /\ ret.df.rows # <<>>

\* C21: the country of every row of the IMF adapter is the name pycountry has
\* for the row's ISO3 code, and the code itself when pycountry has none; the
\* rows of such codes are kept.
C21_IMFCountryNames ==
    IMFAnswered =>
        /\ ret.exc = "none"
        /\ \A i \in DOMAIN ret.df.rows :
              LET iso == ret.df.rows[i]["countryiso3code"].s
                  Known == {k \in DOMAIN PyCountries : PyCountries[k][2] = iso}
              IN  /\ Known # {} => \E k \in Known : ret.df.rows[i]["country"].s = PyCountries[k][1]
                  /\ Known = {} => ret.df.rows[i]["country"].s = iso
        /\ \A j \in DOMAIN response.body.blob :
              (~IMFUnusable(response.body.blob[j]) /\ response.body.blob[j].iso = sWLD)
                  => \E i \in DOMAIN ret.df.rows : ret.df.rows[i]["countryiso3code"].s = sWLD
C21_Witness ==
    /\ IMFAnswered
    /\ Len(ret.df.rows) = 2
    /\ ret.df.rows[1]["country"].s = sBrazil /\ ret.df.rows[1]["countryiso3code"].s = sBRA
    /\ ret.df.rows[2]["country"].s = sWLD /\ ret.df.rows[2]["countryiso3code"].s = sWLD

\* C22: a call of an adapter sends at most one HTTP request: after a response,
\* failed or not, the call has returned and no request was added.
C22_AtMostOneRequest ==
    InGetData =>
        /\ Len(requests) <= Len(invoked)
        /\ Len(requests) <= 1
        /\ response.status # "none" => (pc = "done" /\ Len(requests) = 1)
C22_Witness ==
    /\ InGetData /\ pc = "done"
    /\ response.status = "Timeout"
    /\ Len(requests) = 1 /\ Len(invoked) = 1

\* C23: when the call of an adapter returns an empty table, the call has
\* emitted at least one notification.
C23_EmptyIsNotified ==
    (InGetData /\ pc = "done" /\ Adapter # "none" /\ ret.exc = "none" /\ ret.df.rows = <<>>)
        => notes # <<>>

KeyList(df) == [i \in DOMAIN df.rows |-> MergeKeyOf(df.rows[i])]
KeySet(df) == {MergeKeyOf(df.rows[i]) : i \in DOMAIN df.rows}
UniqueKeys(df) == Cardinality(KeySet(df)) = Len(df.rows)

\* C24: the outer merge of a table of unique keys with itself (the tables of
\* two or more indicators that are the same table but for the name of the
\* value column) has exactly the key rows of the table, each once, with the
\* table's value in every value column.
C24_SelfMerge ==
    (/\ MergeReturned /\ ret.exc = "none" /\ Len(frames) >= 2
     /\ UniqueKeys(frames[1])
     /\ \A i \in DOMAIN frames :
           RenameCol(frames[i], frames[i].cols[Len(frames[i].cols)], "indicator_value")
              = RenameCol(frames[1], frames[1].cols[Len(frames[1].cols)], "indicator_value"))
    => /\ Len(ret.df.rows) = Len(frames[1].rows)
       /\ KeySet(ret.df) = KeySet(frames[1])
       /\ \A r \in DOMAIN ret.df.rows : \A i \in DOMAIN frames : \E j \in DOMAIN frames[i].rows :
             /\ MergeKeyOf(frames[i].rows[j]) = MergeKeyOf(ret.df.rows[r])
             /\ ret.df.rows[r][frames[i].cols[Len(frames[i].cols)]]
                   = frames[i].rows[j][frames[i].cols[Len(frames[i].cols)]]
C24_Witness ==
    /\ MergeReturned /\ ret.exc = "none"
    /\ Len(frames) = Len(IndicatorCodes)
    /\ \A i \in DOMAIN fetched : fetched[i] = fetched[1]
    /\ Len(frames[1].rows) = 2
    /\ Len(ret.df.rows) = 2

C26_ArgumentUnchanged ==
    Scored => arg_df = passed

\* C27: the scores of a year depend on the rows of that year only: the rows of
\* year Y in the scored output of a table are the scored output of the table's
\* rows of year Y alone.
C27_YearsIndependent ==
    (Scored /\ scored.exc = "none") =>
        \A y \in YearsOf(passed) :
            RowsOfYear(scored.score_df, y)
                = calculate_fairness_score([cols |-> passed.cols,
                                            rows |-> RowsOfYear(passed, y)]).score_df.rows
C27_Witness ==
    /\ Scored /\ scored.exc = "none"
    /\ Len(scored.score_df.rows) = 3
    /\ Len(RowsOfYear(scored.score_df, 2020)) = 2
    /\ \E i, j, k \in DOMAIN scored.score_df.rows :
          /\ scored.score_df.rows[i]["date"].n = 2020 /\ Num(scored.score_df.rows[i], "gini") = Rat(20, 1)
          /\ scored.score_df.rows[j]["date"].n = 2020 /\ Num(scored.score_df.rows[j], "gini") = Rat(50, 1)
          /\ Num(scored.score_df.rows[j], "norm_gini") = Zero
          /\ scored.score_df.rows[k]["date"].n = 2021 /\ Num(scored.score_df.rows[k], "gini") = Rat(80, 1)
          /\ Num(scored.score_df.rows[k], "norm_gini") = Half

C29_Memoized ==
    /\ [](  (InGetData /\ pc = "done" /\ Adapter # "none" /\ ret.exc = "none")
              => /\ invoked[Len(invoked)] \in DOMAIN cache
                 /\ cache[invoked[Len(invoked)]].df = ret.df )
    /\ [][ /\ \A inv \in DOMAIN cache : inv \in DOMAIN cache' /\ cache'[inv] = cache[inv]
           /\ (pc = "idle" /\ Len(invoked') = Len(invoked) + 1
                  /\ invoked'[Len(invoked')] \in DOMAIN cache)
              => /\ requests' = requests
                 /\ pc' = "done"
                 /\ ret' = [exc |-> "none", df |-> cache[invoked'[Len(invoked')]].df] ]_vars
C29_Witness ==
    /\ InGetData /\ pc = "done"
    /\ Len(invoked) = 2 /\ invoked[1] = invoked[2] /\ invoked[1].adapter = "WB"
    /\ Len(requests) = 1
    /\ response = NoResponse
    /\ IsEmptyCanonical(ret.df)
    /\ notes = <<Note("error", "API request failed")>>

\* C30: in the Data Commons adapter an observation with an unparsable date or
\* value is skipped on its own: the table returned is the one returned for the
\* response without such observations.
C30_BadObservationSkipped ==
    DCAnswered =>
        LET good == Filter(response.body.obs, DCValid)
        IN  /\ ret.exc = "none"
            /\ ret.df = DCProcess(response.body.key, call.date,
                                  DCBody("dict", response.body.key, good)).df

====
